---- MODULE Spec2Model ----
(***************************************************************************)
(* CMImportBiF (llvm/tools/clang/lib/CodeGen/CMImportBiF.cpp): import of   *)
(* the builtin-function library into the main module, repair of calls made *)
(* through a function bitcast, and lowering of __builtin_IB_* calls to     *)
(* GenX intrinsics.                                                        *)
(*                                                                         *)
(* The IR is modelled by value: a function is a record, its body the       *)
(* sequence of its instructions (basic blocks flattened in layout order),  *)
(* an operand a record naming the argument, instruction or function used.  *)
(* A function id is its index in fns; an erased function keeps its index   *)
(* with where = "erased".                                                  *)
(***************************************************************************)
EXTENDS Integers, Sequences, FiniteSets, TLC

VARIABLES
  fns,                \* every llvm::Function ever created, by id
  mainList,           \* MainModule's function list, in module order
  libList,            \* BiFModule's function list, in module order
  globals,            \* MainModule's global variables
  pc,                 \* where CMImportBiF stands
  asserts,            \* whether assert() is compiled in (no NDEBUG)
  rootIdx,            \* position of `for (auto &func : *MainModule)`
  stack,              \* the active Explore frames, innermost last
  pruneIdx,           \* position of CleanUnused's loop over BiFModule
  func,               \* the function a module scan is in (0: not in one)
  instIdx,            \* next instruction of func the scan looks at
  list_delete,        \* removeFunctionBitcasts: calls queued for erasure
  bitcastFunctionMap, \* removeFunctionBitcasts: original -> its clones
  ListDelete,         \* BIConvert::runOnModule: calls queued for erasure
  nextId,             \* next fresh instruction id
  matCount,           \* history: materialize() calls that succeeded, per function
  visits,             \* history: Explore frames entered, as <<root, function>>
  input               \* history: fns, mainList and globals as the rewrite began

vars == <<fns, mainList, libList, globals, pc, asserts, rootIdx, stack,
          pruneIdx, func, instIdx, list_delete, bitcastFunctionMap,
          ListDelete, nextId, matCount, visits, input>>

(***************************************************************************)
(* Bounds of the model.                                                    *)
(***************************************************************************)
\* longest body of a function of the rewrite inputs holding bitcast calls
MaxCasts == 2
\* longest body of a function of the rewrite inputs holding builtin calls
MaxCalls == 2
\* longest body of a main-module kernel of the import inputs
MaxMainCalls == 2
\* longest body of a library function of the import inputs
MaxLibCalls == 1

(***************************************************************************)
(* Types, values, instructions.                                            *)
(***************************************************************************)
\* a function type is <<return type, parameter types...>>
NumParams(fty) == Len(fty) - 1

ReturnType(fty) == fty[1]

IsIntegerTy(ty) == ty \in {"i8", "i16", "i32", "i64"}

PrimitiveSizeInBits(ty) ==
  CASE ty = "i8" -> 8
    [] ty \in {"i16", "half"} -> 16
    [] ty \in {"i32", "float"} -> 32
    [] ty \in {"i64", "double"} -> 64
    [] ty = "v4i32" -> 128
    [] OTHER -> 0

ArgValue(n, ty) == [k |-> "arg", n |-> n, ty |-> ty]

InstValue(i) == [k |-> "inst", n |-> i.id, ty |-> i.ty]

FnValue(f) == [k |-> "fn", n |-> f, ty |-> "ptr"]

MkInst(id, op, mode, callee, fty, args, ty, cc) ==
  [id |-> id, op |-> op, mode |-> mode, callee |-> callee, fty |-> fty,
   args |-> args, ty |-> ty, cc |-> cc, dead |-> FALSE]

\* CallInst::Create(Callee, Args, Name, InsertBefore)
CallInstCreate(id, F, callee, args) ==
  MkInst(id, "call", "direct", callee, F[callee].ty, args,
         ReturnType(F[callee].ty), 0)

MkFunction(name, uniq, ty, cc, state, where, iid, tys, linkage, dll, body, of) ==
  [name |-> name, uniq |-> uniq, ty |-> ty, cc |-> cc, state |-> state,
   where |-> where, iid |-> iid, tys |-> tys, linkage |-> linkage,
   dll |-> dll, body |-> body, of |-> of]

IsDeclaration(F, f) == F[f].state = "decl"

IsMaterializable(F, f) == F[f].state = "mat"

\* CallInst::getCalledFunction(): the callee when it is a Function itself
GetCalledFunction(i) ==
  IF i.op = "call" /\ i.mode = "direct" /\ ~i.dead THEN i.callee ELSE 0

\* whether instruction i holds a use of function f
Refs(i, f) ==
  /\ ~i.dead
  /\ \/ (i.mode \in {"direct", "cast"} /\ i.callee = f)
     \/ \E a \in 1..Len(i.args) : i.args[a].k = "fn" /\ i.args[a].n = f

\* Value::use_empty() of function f of the main module
UseEmpty(F, f) ==
  ~\E g \in 1..Len(F) :
     /\ F[g].where = "main"
     /\ \E k \in 1..Len(F[g].body) : Refs(F[g].body[k], f)

\* a faulty test: the bodies not loaded yet count as holding uses
use_empty_unloaded(F, f) ==
  ~\E g \in 1..Len(F) :
     /\ F[g].where = "lib"
     /\ \E k \in 1..Len(F[g].body) : Refs(F[g].body[k], f)

\* materialized_use_begin() == use_end(): only loaded bodies hold uses
materialized_use_empty(F, f) ==
  ~\E g \in 1..Len(F) :
     /\ F[g].where = "lib"
     /\ F[g].state = "def"
     /\ \E k \in 1..Len(F[g].body) : Refs(F[g].body[k], f)

RemoveFromList(list, f) == SelectSeq(list, LAMBDA g : g # f)

\* the element after f in list, 0 at the end
Successor(list, f) ==
  LET p == CHOOSE k \in 1..Len(list) : list[k] = f
  IN IF p < Len(list) THEN list[p + 1] ELSE 0

InsertBefore(body, j, news) ==
  SubSeq(body, 1, j - 1) \o news \o SubSeq(body, j, Len(body))

\* Value::replaceAllUsesWith inside one body
ReplaceAllUsesWith(body, old, new) ==
  [k \in 1..Len(body) |->
     [body[k] EXCEPT !.args =
        [a \in 1..Len(body[k].args) |->
           IF body[k].args[a].k = "inst" /\ body[k].args[a].n = old
           THEN new ELSE body[k].args[a]]]]

\* Instruction::eraseFromParent
EraseInst(body, id) == SelectSeq(body, LAMBDA i : i.id # id)

\* the function of the main module that holds instruction id, 0 when freed
ParentOf(F, id) ==
  LET hold == {g \in 1..Len(F) :
                 /\ F[g].where = "main"
                 /\ \E k \in 1..Len(F[g].body) : F[g].body[k].id = id}
  IN IF hold = {} THEN 0 ELSE CHOOSE g \in hold : TRUE

\* the first index at or after from among hits, the indexes of the
\* instructions a scan acts on; 0 if none
FirstSite(hits, from) ==
  LET left == {k \in hits : k >= from}
  IN IF left = {} THEN 0 ELSE CHOOSE k \in left : \A m \in left : k <= m

\* the first function after f in list (from its head when f = 0) among
\* holders, the functions with an instruction the scan acts on; 0 if none:
\* the functions between are scanned without effect
NextWith(list, f, holders) ==
  LET p == IF f = 0 THEN 0 ELSE CHOOSE k \in 1..Len(list) : list[k] = f
      hits == {k \in (p + 1)..Len(list) : list[k] \in holders}
  IN IF hits = {} THEN 0 ELSE list[CHOOSE k \in hits : \A m \in hits : k <= m]

(***************************************************************************)
(* removeFunctionBitcasts                                                  *)
(***************************************************************************)
\* the calls the scan acts on: the callee is a ConstantExpr that strips to
\* a Function which is not a declaration
BitcastSite(i) ==
  i.op = "call" /\ ~i.dead /\ i.mode = "cast" /\ ~IsDeclaration(fns, i.callee)

BitcastSites(body) == {k \in 1..Len(body) : BitcastSite(body[k])}

BitcastHolders == {g \in 1..Len(fns) : BitcastSites(fns[g].body) # {}}

\* the clone of f cached under function type fty, 0 if there is none
CachedClone(f, fty) ==
  IF f \notin DOMAIN bitcastFunctionMap THEN 0
  ELSE LET funcVec == bitcastFunctionMap[f]
           hits == {k \in 1..Len(funcVec) : fns[funcVec[k]].ty = fty}
       IN IF hits = {} THEN 0
          ELSE funcVec[CHOOSE k \in hits : \A m \in hits : k <= m]

\* Function::Create(pInstCall->getFunctionType(), linkage, name, &M): the
\* module's symbol table makes the taken name unique
FunctionCreate(F, f, fty, d) ==
  MkFunction(F[f].name, d, fty, 0, "decl", "main", "not_intrinsic", <<>>,
             F[f].linkage, FALSE, <<>>, f)

\* CloneFunctionInto: the body under fresh instruction ids, the arguments
\* mapped by position onto the arguments of the new function type
CloneBody(body, fty, base) ==
  LET PosOf(id) == CHOOSE m \in 1..Len(body) : body[m].id = id
      Remap(v) ==
        IF v.k = "arg" THEN ArgValue(v.n, fty[v.n + 2])
        ELSE IF v.k = "inst" THEN [v EXCEPT !.n = base + PosOf(v.n) - 1]
        ELSE v
  IN [m \in 1..Len(body) |->
        [body[m] EXCEPT !.id = base + m - 1,
                        !.args = [a \in 1..Len(body[m].args) |->
                                    Remap(body[m].args[a])]]]

\* an instruction whose operands dropAllReferences() has nulled
HasDroppedCall(body) == \E k \in 1..Len(body) : body[k].dead

\* a faulty cache: the new clone takes the place of the ones cached before
AddCloneOverwrites(map, f, d) == map @@ (f :> <<d>>)

\* line 425: the clone joins the vector cached for f
AddClone(map, f, d) ==
  IF f \in DOMAIN map THEN [map EXCEPT ![f] = Append(@, d)]
  ELSE map @@ (f :> <<d>>)

\* lines 398-403: the new function is in the module before the arity test
\* and stays there when the test fails
RepairSkipArity(j, call) ==
  LET f == call.callee
      d == Len(fns) + 1
  IN /\ fns' = Append(fns, FunctionCreate(fns, f, call.fty, d))
     /\ mainList' = Append(mainList, d)
     /\ instIdx' = j + 1
     /\ UNCHANGED <<func, list_delete, bitcastFunctionMap, nextId, pc>>

\* lines 419-422 on a body that holds a call queued by an earlier step:
\* RemapInstruction reads through the null operand
RepairCloneCrash ==
  /\ pc' = "crashed"
  /\ UNCHANGED <<fns, mainList, func, instIdx, list_delete,
                 bitcastFunctionMap, nextId>>

\* lines 382-443 for a call that is redirected
RepairRedirect(j, call, cached) ==
  LET f == call.callee
      notExists == cached = 0
      d == IF notExists THEN Len(fns) + 1 ELSE cached
      body0 == CloneBody(fns[f].body, call.fty, nextId)
      created == [FunctionCreate(fns, f, call.fty, d) EXCEPT
                    !.state = "def", !.body = body0, !.cc = fns[f].cc]
      fns1 == IF notExists THEN Append(fns, created) ELSE fns
      idCI == IF notExists THEN nextId + Len(body0) ELSE nextId
      newCI == [CallInstCreate(idCI, fns1, d, call.args) EXCEPT !.cc = call.cc]
      body1 == InsertBefore(fns1[func].body, j, <<newCI>>)
      body2 == ReplaceAllUsesWith(body1, call.id, InstValue(newCI))
      body3 == [body2 EXCEPT ![j + 1].dead = TRUE]
      fns2 == [fns1 EXCEPT ![func].body = body3]
      list1 == IF notExists THEN Append(mainList, d) ELSE mainList
      gone == UseEmpty(fns2, f)
      fns3 == IF gone
              THEN [fns2 EXCEPT ![f].where = "erased", ![f].body = <<>>]
              ELSE fns2
  IN /\ fns' = fns3
     /\ mainList' = IF gone THEN RemoveFromList(list1, f) ELSE list1
     /\ bitcastFunctionMap' =
          IF notExists THEN AddClone(bitcastFunctionMap, f, d)
          ELSE bitcastFunctionMap
     /\ list_delete' = Append(list_delete, call.id)
     /\ nextId' = idCI + 1
     \* f is never func itself: a clone of func, scanned after func, still
     \* holds a copy of any call of func through a bitcast of func
     /\ pc' = pc
     /\ func' = func
     /\ instIdx' = j + 2

\* one iteration of the scan that reaches line 382
RepairCall ==
  /\ pc = "repair_scan"
  /\ func # 0
  /\ FirstSite(BitcastSites(fns[func].body), instIdx) # 0
  /\ LET j == FirstSite(BitcastSites(fns[func].body), instIdx)
         call == fns[func].body[j]
         f == call.callee
         cached == CachedClone(f, call.fty)
     IN IF cached = 0 /\ NumParams(call.fty) # NumParams(fns[f].ty)
        THEN RepairSkipArity(j, call)
        ELSE IF cached = 0 /\ HasDroppedCall(fns[f].body)
        THEN RepairCloneCrash
        ELSE RepairRedirect(j, call, cached)
  /\ UNCHANGED <<libList, globals, asserts, rootIdx, stack, pruneIdx,
                 ListDelete, matCount, visits, input>>

\* the scan leaves func: `for (Function &func : M)` steps on to the next
\* function with a call it acts on, or ends
RepairAdvance ==
  /\ pc = "repair_scan"
  /\ IF func = 0 THEN TRUE
     ELSE FirstSite(BitcastSites(fns[func].body), instIdx) = 0
  /\ LET next == NextWith(mainList, func, BitcastHolders)
     IN /\ func' = next
        /\ instIdx' = 1
        /\ pc' = IF next = 0 THEN "repair_erase" ELSE pc
  /\ UNCHANGED <<fns, mainList, libList, globals, asserts, rootIdx, stack,
                 pruneIdx, list_delete, bitcastFunctionMap, ListDelete,
                 nextId, matCount, visits, input>>

\* lines 450-452, one queued call; a call whose function was erased during
\* the scan is a dangling pointer
RepairErase ==
  /\ pc = "repair_erase"
  /\ list_delete # <<>>
  /\ LET id == Head(list_delete)
         p == ParentOf(fns, id)
     IN IF p = 0
        THEN /\ fns' = fns
             /\ list_delete' = Tail(list_delete)
             /\ pc' \in {"crashed", pc}
        ELSE /\ fns' = [fns EXCEPT ![p].body = EraseInst(@, id)]
             /\ list_delete' = Tail(list_delete)
             /\ pc' = pc
  /\ UNCHANGED <<mainList, libList, globals, asserts, rootIdx, stack,
                 pruneIdx, func, instIdx, bitcastFunctionMap, ListDelete,
                 nextId, matCount, visits, input>>

\* removeFunctionBitcasts returns; BIConvert::runOnModule begins its scan
RepairReturn ==
  /\ pc = "repair_erase"
  /\ list_delete = <<>>
  /\ pc' = "convert_scan"
  /\ func' = 0
  /\ instIdx' = 1
  /\ UNCHANGED <<fns, mainList, libList, globals, asserts, rootIdx, stack,
                 pruneIdx, list_delete, bitcastFunctionMap, ListDelete,
                 nextId, matCount, visits, input>>

(***************************************************************************)
(* BIConvert                                                               *)
(***************************************************************************)
\* builtins that map to one intrinsic (BIConvert::BIConvert)
OneMap ==
     ("__builtin_IB_frnd_ne" :> "genx_rnde")
  @@ ("__builtin_IB_ftoh_rtn" :> "genx_rndd")
  @@ ("__builtin_IB_ftoh_rtp" :> "genx_rndu")
  @@ ("__builtin_IB_ftoh_rtz" :> "genx_rndz")
  @@ ("__builtin_IB_dtoh_rtn" :> "genx_rnde")
  @@ ("__builtin_IB_dtoh_rtp" :> "genx_rndu")
  @@ ("__builtin_IB_dtoh_rtz" :> "genx_rndz")
  @@ ("__builtin_IB_dtof_rtn" :> "genx_rnde")
  @@ ("__builtin_IB_dtof_rtp" :> "genx_rndu")
  @@ ("__builtin_IB_dtof_rtz" :> "genx_rndz")
  @@ ("__builtin_IB_frnd_pi" :> "genx_rndu")
  @@ ("__builtin_IB_frnd_ni" :> "genx_rndd")
  @@ ("__builtin_IB_frnd_zi" :> "genx_rndz")
  @@ ("__builtin_IB_native_cosf" :> "genx_cos")
  @@ ("__builtin_IB_native_cosh" :> "genx_cos")
  @@ ("__builtin_IB_native_sinf" :> "genx_sin")
  @@ ("__builtin_IB_native_sinh" :> "genx_sin")
  @@ ("__builtin_IB_native_exp2f" :> "genx_exp")
  @@ ("__builtin_IB_native_exp2h" :> "genx_exp")
  @@ ("__builtin_IB_native_log2f" :> "genx_log")
  @@ ("__builtin_IB_native_log2h" :> "genx_log")
  @@ ("__builtin_IB_native_sqrtf" :> "genx_sqrt")
  @@ ("__builtin_IB_native_sqrth" :> "genx_sqrt")
  @@ ("__builtin_IB_native_sqrtd" :> "genx_sqrt")
  @@ ("__builtin_IB_popcount_1u32" :> "genx_cbit")
  @@ ("__builtin_IB_popcount_1u16" :> "genx_cbit")
  @@ ("__builtin_IB_popcount_1u8" :> "genx_cbit")
  @@ ("__builtin_IB_native_powrf" :> "genx_pow")
  @@ ("__builtin_IB_fma" :> "fma")
  @@ ("__builtin_IB_fmah" :> "fma")
  @@ ("__builtin_IB_bfrev" :> "genx_bfrev")
  @@ ("__builtin_IB_fmax" :> "genx_fmax")
  @@ ("__builtin_IB_fmin" :> "genx_fmin")
  @@ ("__builtin_IB_HMAX" :> "genx_fmax")
  @@ ("__builtin_IB_HMIN" :> "genx_fmin")
  @@ ("__builtin_IB_dmin" :> "genx_fmin")
  @@ ("__builtin_IB_dmax" :> "genx_fmax")
  @@ ("__builtin_IB_ieee_sqrt" :> "genx_ieee_sqrt")
  @@ ("__builtin_IB_ieee_divide" :> "genx_ieee_div")
  @@ ("__builtin_IB_ieee_divide_f64" :> "genx_ieee_div")

\* builtins that map to two intrinsics (BIConvert::BIConvert)
TwoMap ==
     ("__builtin_IB_dtoi8_rtn" :> <<"genx_rndd", "genx_fptosi_sat">>)
  @@ ("__builtin_IB_dtoi8_rtp" :> <<"genx_rndu", "genx_fptosi_sat">>)
  @@ ("__builtin_IB_dtoi8_rte" :> <<"genx_rnde", "genx_fptosi_sat">>)
  @@ ("__builtin_IB_dtoi16_rtn" :> <<"genx_rndd", "genx_fptosi_sat">>)
  @@ ("__builtin_IB_dtoi16_rtp" :> <<"genx_rndu", "genx_fptosi_sat">>)
  @@ ("__builtin_IB_dtoi16_rte" :> <<"genx_rnde", "genx_fptosi_sat">>)
  @@ ("__builtin_IB_dtoi32_rtn" :> <<"genx_rndd", "genx_fptosi_sat">>)
  @@ ("__builtin_IB_dtoi32_rtp" :> <<"genx_rndu", "genx_fptosi_sat">>)
  @@ ("__builtin_IB_dtoi32_rte" :> <<"genx_rnde", "genx_fptosi_sat">>)
  @@ ("__builtin_IB_dtoi64_rtn" :> <<"genx_rndd", "genx_fptosi_sat">>)
  @@ ("__builtin_IB_dtoi64_rtp" :> <<"genx_rndu", "genx_fptosi_sat">>)
  @@ ("__builtin_IB_dtoi64_rte" :> <<"genx_rnde", "genx_fptosi_sat">>)
  @@ ("__builtin_IB_dtoui8_rtn" :> <<"genx_rndd", "genx_fptoui_sat">>)
  @@ ("__builtin_IB_dtoui8_rtp" :> <<"genx_rndu", "genx_fptoui_sat">>)
  @@ ("__builtin_IB_dtoui8_rte" :> <<"genx_rnde", "genx_fptoui_sat">>)
  @@ ("__builtin_IB_dtoui16_rtn" :> <<"genx_rndd", "genx_fptoui_sat">>)
  @@ ("__builtin_IB_dtoui16_rtp" :> <<"genx_rndu", "genx_fptoui_sat">>)
  @@ ("__builtin_IB_dtoui16_rte" :> <<"genx_rnde", "genx_fptoui_sat">>)
  @@ ("__builtin_IB_dtoui32_rtn" :> <<"genx_rndd", "genx_fptoui_sat">>)
  @@ ("__builtin_IB_dtoui32_rtp" :> <<"genx_rndu", "genx_fptoui_sat">>)
  @@ ("__builtin_IB_dtoui32_rte" :> <<"genx_rnde", "genx_fptoui_sat">>)
  @@ ("__builtin_IB_dtoui64_rtn" :> <<"genx_rndd", "genx_fptoui_sat">>)
  @@ ("__builtin_IB_dtoui64_rtp" :> <<"genx_rndu", "genx_fptoui_sat">>)
  @@ ("__builtin_IB_dtoui64_rte" :> <<"genx_rnde", "genx_fptoui_sat">>)
  @@ ("__builtin_IB_fma_rtz_f64" :> <<"fma", "genx_rndz">>)
  @@ ("__builtin_IB_fma_rtz_f32" :> <<"fma", "genx_rndz">>)

\* StringRef::startswith over the function names the inputs use
StartsWith(name, prefix) ==
  <<name, prefix>> \in
    {<<"__builtin_IB_itof_rtz", "__builtin_IB_itof">>,
     <<"__builtin_IB_itof_rtn", "__builtin_IB_itof">>,
     <<"__builtin_IB_uitof_rtz", "__builtin_IB_uitof">>,
     <<"__builtin_IB_uitof_rtp", "__builtin_IB_uitof">>,
     <<"__builtin_IB_mul_rtz_f32", "__builtin_IB_mul_rtz">>,
     <<"__builtin_IB_mul_rtz_f64", "__builtin_IB_mul_rtz">>,
     <<"__builtin_IB_add_rtz_f32", "__builtin_IB_add_rtz">>,
     <<"__builtin_IB_add_rtz_f64", "__builtin_IB_add_rtz">>}

\* the branch of lines 178-306 a direct call to f takes
Rule(F, f) ==
  IF F[f].iid \in {"lifetime_start", "lifetime_end"} THEN "lifetime"
  ELSE IF F[f].iid = "ctlz" THEN "ctlz"
  ELSE IF F[f].uniq = 0 /\ F[f].name \in DOMAIN OneMap THEN "one"
  ELSE IF F[f].uniq = 0 /\ F[f].name \in DOMAIN TwoMap THEN "two"
  ELSE IF StartsWith(F[f].name, "__builtin_IB_itof") THEN "itof"
  ELSE IF StartsWith(F[f].name, "__builtin_IB_uitof") THEN "uitof"
  ELSE IF StartsWith(F[f].name, "__builtin_IB_mul_rtz") THEN "mul_rtz"
  ELSE IF StartsWith(F[f].name, "__builtin_IB_add_rtz") THEN "add_rtz"
  ELSE "none"

\* the calls the scan acts on
BuiltinSite(i) ==
  GetCalledFunction(i) # 0 /\ Rule(fns, GetCalledFunction(i)) # "none"

BuiltinCalls(body) == {k \in 1..Len(body) : BuiltinSite(body[k])}

BuiltinHolders == {g \in 1..Len(fns) : BuiltinCalls(fns[g].body) # {}}

\* Intrinsic::getDeclaration(&M, id, tys): the declaration of the module
\* for this instantiation, created at the end of the module if absent
DeclarationOf(F, iid, tys) ==
  LET have == {g \in 1..Len(F) :
                 F[g].where = "main" /\ F[g].iid = iid /\ F[g].tys = tys}
  IN IF have = {} THEN Len(F) + 1 ELSE CHOOSE g \in have : TRUE

\* the instantiated intrinsic returns its first overloaded type
WithDeclaration(F, iid, tys) ==
  IF DeclarationOf(F, iid, tys) <= Len(F) THEN F
  ELSE Append(F, MkFunction("llvm." \o iid, 0, <<tys[1]>>, 0, "decl", "main",
                            iid, tys, "external", FALSE, <<>>, 0))

\* one intrinsic call: [F: the functions, news: the new instructions]
EmitIntrinsic(F, id, iid, tys, args) ==
  LET F1 == WithDeclaration(F, iid, tys)
  IN [F |-> F1,
      news |-> <<CallInstCreate(id, F1, DeclarationOf(F, iid, tys), args)>>]

\* lines 183-202
LowerCtlz(F, call, id) ==
  EmitIntrinsic(F, id, "genx_lzd", <<call.args[1].ty>>, <<call.args[1]>>)

\* the two assert()s of lines 187-188
CtlzAssertsHold(call) ==
  IsIntegerTy(call.args[1].ty) /\ PrimitiveSizeInBits(call.args[1].ty) = 32

\* a faulty lowering: the intrinsic instantiated with the type of argument 0
LowerOneByArgument(F, call, id) ==
  EmitIntrinsic(F, id, OneMap[F[call.callee].name],
                <<call.args[1].ty>>, call.args)

\* lines 206-222
LowerOne(F, call, id) ==
  LET callee == call.callee
  IN EmitIntrinsic(F, id, OneMap[F[callee].name],
                   <<ReturnType(F[callee].ty)>>, call.args)

\* a faulty lowering: the second intrinsic given the original arguments
LowerTwoSameArguments(F, call, id) ==
  LET callee == call.callee
      pair == TwoMap[F[callee].name]
      first == EmitIntrinsic(F, id, pair[1], <<call.args[1].ty>>, call.args)
      IntrinCall0 == first.news[1]
      second == EmitIntrinsic(first.F, id + 1, pair[2],
                              <<ReturnType(F[callee].ty), IntrinCall0.ty>>,
                              call.args)
  IN [F |-> second.F, news |-> first.news \o second.news]

\* lines 224-254
LowerTwo(F, call, id) ==
  LET callee == call.callee
      pair == TwoMap[F[callee].name]
      first == EmitIntrinsic(F, id, pair[1], <<call.args[1].ty>>, call.args)
      IntrinCall0 == first.news[1]
      second == EmitIntrinsic(first.F, id + 1, pair[2],
                              <<ReturnType(F[callee].ty), IntrinCall0.ty>>,
                              <<InstValue(IntrinCall0)>>)
  IN [F |-> second.F, news |-> first.news \o second.news]

\* lines 256-269: SIToFPInst / UIToFPInst over argument 0
LowerConv(F, call, id, op) ==
  [F |-> F,
   news |-> <<MkInst(id, op, "none", 0, <<>>, <<call.args[1]>>,
                     ReturnType(F[call.callee].ty), 0)>>]

\* lines 270-306: FMul / FAdd of arguments 0 and 1, then genx_rndz
LowerRtz(F, call, id, op) ==
  LET bin == MkInst(id, op, "none", 0, <<>>, <<call.args[1], call.args[2]>>,
                    call.args[1].ty, 0)
      rnd == EmitIntrinsic(F, id + 1, "genx_rndz", <<call.args[1].ty>>,
                           <<InstValue(bin)>>)
  IN [F |-> rnd.F, news |-> <<bin>> \o rnd.news]

Lower(F, call, id) ==
  LET rule == Rule(F, call.callee)
  IN CASE rule = "lifetime" -> [F |-> F, news |-> <<>>]
       [] rule = "ctlz" -> LowerCtlz(F, call, id)
       [] rule = "one" -> LowerOne(F, call, id)
       [] rule = "two" -> LowerTwo(F, call, id)
       [] rule = "itof" -> LowerConv(F, call, id, "sitofp")
       [] rule = "uitof" -> LowerConv(F, call, id, "uitofp")
       [] rule = "mul_rtz" -> LowerRtz(F, call, id, "fmul")
       [] rule = "add_rtz" -> LowerRtz(F, call, id, "fadd")

\* one iteration of the scan that reaches a rewriting branch
ConvertCall ==
  /\ pc = "convert_scan"
  /\ func # 0
  /\ FirstSite(BuiltinCalls(fns[func].body), instIdx) # 0
  /\ LET j == FirstSite(BuiltinCalls(fns[func].body), instIdx)
         call == fns[func].body[j]
         low == Lower(fns, call, nextId)
         body1 == InsertBefore(low.F[func].body, j, low.news)
         body2 == IF low.news = <<>> THEN body1
                  ELSE ReplaceAllUsesWith(body1, call.id,
                         InstValue(low.news[Len(low.news)]))
     IN IF Rule(fns, call.callee) = "ctlz" /\ ~CtlzAssertsHold(call) /\ asserts
        THEN /\ pc' = "aborted"
             /\ UNCHANGED <<fns, mainList, instIdx, ListDelete, nextId>>
        ELSE /\ pc' = pc
             /\ fns' = [low.F EXCEPT ![func].body = body2]
             /\ mainList' = mainList \o
                  [k \in 1..(Len(low.F) - Len(fns)) |-> Len(fns) + k]
             /\ instIdx' = j + Len(low.news) + 1
             /\ ListDelete' = Append(ListDelete, call.id)
             /\ nextId' = nextId + Len(low.news)
  /\ UNCHANGED <<libList, globals, asserts, rootIdx, stack, pruneIdx, func,
                 list_delete, bitcastFunctionMap, matCount, visits, input>>

\* the scan leaves func: `for (Function &func : M)` steps on to the next
\* function with a call it acts on, or ends
ConvertAdvance ==
  /\ pc = "convert_scan"
  /\ IF func = 0 THEN TRUE
     ELSE FirstSite(BuiltinCalls(fns[func].body), instIdx) = 0
  /\ LET next == NextWith(mainList, func, BuiltinHolders)
     IN /\ func' = next
        /\ instIdx' = 1
        /\ pc' = IF next = 0 THEN "convert_erase" ELSE pc
  /\ UNCHANGED <<fns, mainList, libList, globals, asserts, rootIdx, stack,
                 pruneIdx, list_delete, bitcastFunctionMap, ListDelete,
                 nextId, matCount, visits, input>>

\* lines 311-313, one queued call
ConvertErase ==
  /\ pc = "convert_erase"
  /\ ListDelete # <<>>
  /\ LET id == Head(ListDelete)
     IN fns' = [fns EXCEPT ![ParentOf(fns, id)].body = EraseInst(@, id)]
  /\ ListDelete' = Tail(ListDelete)
  /\ UNCHANGED <<mainList, libList, globals, pc, asserts, rootIdx, stack,
                 pruneIdx, func, instIdx, list_delete, bitcastFunctionMap,
                 nextId, matCount, visits, input>>

\* a faulty finalizer: dllexport functions are demoted too
ConvertLinkageAll ==
  /\ pc = "convert_erase"
  /\ ListDelete = <<>>
  /\ globals' = [g \in 1..Len(globals) |->
                   IF ~globals[g].decl
                   THEN [globals[g] EXCEPT !.linkage = "internal"]
                   ELSE globals[g]]
  /\ fns' = [f \in 1..Len(fns) |->
               IF /\ fns[f].where = "main"
                  /\ fns[f].iid = "not_intrinsic"
                  /\ ~IsDeclaration(fns, f)
               THEN [fns[f] EXCEPT !.linkage = "internal"]
               ELSE fns[f]]
  /\ pc' = "done"
  /\ UNCHANGED <<mainList, libList, asserts, rootIdx, stack, pruneIdx, func,
                 instIdx, list_delete, bitcastFunctionMap, ListDelete,
                 nextId, matCount, visits, input>>

\* lines 315-323: defined globals and functions become internal
ConvertLinkage ==
  /\ pc = "convert_erase"
  /\ ListDelete = <<>>
  /\ globals' = [g \in 1..Len(globals) |->
                   IF ~globals[g].decl
                   THEN [globals[g] EXCEPT !.linkage = "internal"]
                   ELSE globals[g]]
  /\ fns' = [f \in 1..Len(fns) |->
               IF /\ fns[f].where = "main"
                  /\ fns[f].iid = "not_intrinsic"
                  /\ ~IsDeclaration(fns, f)
                  /\ ~fns[f].dll
               THEN [fns[f] EXCEPT !.linkage = "internal"]
               ELSE fns[f]]
  /\ pc' = "done"
  /\ UNCHANGED <<mainList, libList, asserts, rootIdx, stack, pruneIdx, func,
                 instIdx, list_delete, bitcastFunctionMap, ListDelete,
                 nextId, matCount, visits, input>>

(***************************************************************************)
(* CMImportBiF: the demand walk, CleanUnused, the link.                    *)
(***************************************************************************)
\* lines 328-334: the function of BiFModule of that name, unless it is a
\* declaration; 0 for nullptr
GetBuiltinFunction(F, funcName) ==
  LET have == {g \in 1..Len(F) :
                 /\ F[g].where = "lib"
                 /\ F[g].name = funcName /\ F[g].uniq = 0
                 /\ ~IsDeclaration(F, g)}
  IN IF have = {} THEN 0 ELSE CHOOSE g \in have : TRUE

\* line 349: every CallInst of pFunc takes pFunc's calling convention
SetCallingConvs(F, pFunc) ==
  [F EXCEPT ![pFunc].body =
     [k \in 1..Len(@) |->
        IF @[k].op = "call" THEN [@[k] EXCEPT !.cc = F[pFunc].cc] ELSE @[k]]]

\* lines 350-360: the distinct direct callees of pFunc in instruction order
CalledFuncs(F, pFunc) ==
  LET body == F[pFunc].body
      first(k) ==
        /\ GetCalledFunction(body[k]) # 0
        /\ \A m \in 1..(k - 1) :
             GetCalledFunction(body[m]) # GetCalledFunction(body[k])
      at == SelectSeq([k \in 1..Len(body) |-> k], first)
  IN [n \in 1..Len(at) |-> GetCalledFunction(body[at[n]])]

\* lines 340-362
GetCalledFunctions(F, pFunc) ==
  [F |-> SetCallingConvs(F, pFunc), calledFuncs |-> CalledFuncs(F, pFunc)]

\* lines 484-485: the frame Explore(pRoot) opens
Frame(F, pRoot) ==
  [root |-> pRoot, todo |-> GetCalledFunctions(F, pRoot).calledFuncs]

\* a faulty loader: the function stays materializable
MaterializeLeavesLazy(F, pFunc) == F

\* line 500, Function::materialize() succeeding: the body is loaded
Materialize(F, pFunc) == [F EXCEPT ![pFunc].state = "def"]

\* lines 488-497: the function the loop goes on with, 0 for `continue`
Resolve(F, pCallee) ==
  IF IsDeclaration(F, pCallee)
  THEN GetBuiltinFunction(F, F[pCallee].name)
  ELSE pCallee

Visit(root, callee, entered) ==
  [root |-> root, callee |-> callee, entered |-> entered]

\* lines 515-517: `for (auto &func : *MainModule) Explore(&func)`, one call
WalkRoot ==
  /\ pc = "walk"
  /\ stack = <<>>
  /\ rootIdx <= Len(mainList)
  /\ LET pRoot == mainList[rootIdx]
     IN /\ fns' = GetCalledFunctions(fns, pRoot).F
        /\ stack' = <<Frame(fns, pRoot)>>
        /\ visits' = Append(visits, Visit(0, pRoot, TRUE))
  /\ rootIdx' = rootIdx + 1
  /\ UNCHANGED <<mainList, libList, globals, pc, asserts, pruneIdx, func,
                 instIdx, list_delete, bitcastFunctionMap, ListDelete,
                 nextId, matCount, input>>

\* lines 487-512: one iteration of `for (auto *pCallee : calledFuncs)`,
\* materialize() succeeding
ExploreCallee ==
  /\ pc = "walk"
  /\ stack # <<>>
  /\ stack[Len(stack)].todo # <<>>
  /\ LET top == stack[Len(stack)]
         pRoot == top.root
         pFunc == Resolve(fns, Head(top.todo))
         rest == [stack EXCEPT ![Len(stack)].todo = Tail(@)]
     IN IF pFunc = 0
        THEN /\ stack' = rest
             /\ UNCHANGED <<fns, matCount, visits>>
        ELSE IF IsMaterializable(fns, pFunc)
        THEN LET loaded == Materialize(fns, pFunc)
                 fns1 == [loaded EXCEPT ![pFunc].cc = fns[pRoot].cc]
             IN /\ fns' = GetCalledFunctions(fns1, pFunc).F
                /\ stack' = Append(rest, Frame(fns1, pFunc))
                /\ matCount' = [matCount EXCEPT ![pFunc] = @ + 1]
                /\ visits' = Append(visits, Visit(pRoot, pFunc, TRUE))
        ELSE /\ stack' = rest
             /\ visits' = Append(visits, Visit(pRoot, pFunc, FALSE))
             /\ UNCHANGED <<fns, matCount>>
  /\ UNCHANGED <<mainList, libList, globals, pc, asserts, rootIdx, pruneIdx,
                 func, instIdx, list_delete, bitcastFunctionMap, ListDelete,
                 nextId, input>>

\* line 513: the loop of a frame is over, Explore returns
ExploreReturn ==
  /\ pc = "walk"
  /\ stack # <<>>
  /\ stack[Len(stack)].todo = <<>>
  /\ stack' = SubSeq(stack, 1, Len(stack) - 1)
  /\ UNCHANGED <<fns, mainList, libList, globals, pc, asserts, rootIdx,
                 pruneIdx, func, instIdx, list_delete, bitcastFunctionMap,
                 ListDelete, nextId, matCount, visits, input>>

\* lines 517-531: the walk is over, CleanUnused(BiFModule.get()) begins
WalkDone ==
  /\ pc = "walk"
  /\ stack = <<>>
  /\ rootIdx > Len(mainList)
  /\ pc' = "clean"
  /\ pruneIdx' = 1
  /\ UNCHANGED <<fns, mainList, libList, globals, asserts, rootIdx, stack,
                 func, instIdx, list_delete, bitcastFunctionMap, ListDelete,
                 nextId, matCount, visits, input>>

\* lines 523-527: what CleanUnused erases
Unused(F, f) ==
  (IsDeclaration(F, f) \/ IsMaterializable(F, f)) /\ materialized_use_empty(F, f)

\* lines 521-528: one iteration of CleanUnused's loop
CleanStep ==
  /\ pc = "clean"
  /\ pruneIdx <= Len(libList)
  /\ LET f == libList[pruneIdx]
     IN IF Unused(fns, f)
        THEN /\ fns' = [fns EXCEPT ![f].where = "erased", ![f].body = <<>>]
             /\ libList' = RemoveFromList(libList, f)
             /\ pruneIdx' = pruneIdx
        ELSE /\ pruneIdx' = pruneIdx + 1
             /\ UNCHANGED <<fns, libList>>
  /\ UNCHANGED <<mainList, globals, pc, asserts, rootIdx, stack, func,
                 instIdx, list_delete, bitcastFunctionMap, ListDelete,
                 nextId, matCount, visits, input>>

\* a body still to be loaded names a function CleanUnused has freed
LoadsFreed(F) ==
  \E g \in 1..Len(F) :
    /\ F[g].where = "lib"
    /\ IsMaterializable(F, g)
    /\ \E k \in 1..Len(F[g].body) : \E x \in 1..Len(F) :
         F[x].where = "erased" /\ Refs(F[g].body[k], x)

\* lines 531-536: CleanUnused has returned, BiFModule->materializeAll();
\* loading a body that names a freed function reads freed memory
MaterializeAll ==
  /\ pc = "clean"
  /\ pruneIdx > Len(libList)
  /\ LET lazy == {g \in 1..Len(fns) :
                    fns[g].where = "lib" /\ IsMaterializable(fns, g)}
     IN /\ fns' = [g \in 1..Len(fns) |->
                     IF g \in lazy THEN Materialize(fns, g)[g] ELSE fns[g]]
        /\ matCount' = [g \in DOMAIN matCount |->
                          IF g \in lazy THEN matCount[g] + 1 ELSE matCount[g]]
  /\ pc' \in IF LoadsFreed(fns) THEN {"crashed", "link"} ELSE {"link"}
  /\ UNCHANGED <<mainList, libList, globals, asserts, rootIdx, stack,
                 pruneIdx, func, instIdx, list_delete, bitcastFunctionMap,
                 ListDelete, nextId, visits, input>>

\* the function of the main module with the name of library function l
Twin(F, l) ==
  LET have == {m \in 1..Len(F) :
                 /\ F[m].where = "main"
                 /\ F[m].name = F[l].name /\ F[m].uniq = F[l].uniq}
  IN IF have = {} THEN 0 ELSE CHOOSE m \in have : TRUE

\* the function that stands for x once the modules are linked: a library
\* definition takes the place of the main module's declaration of its
\* name, a library declaration gives way to the main module's function
Linked(F, x) ==
  IF F[x].where = "lib" /\ IsDeclaration(F, x) /\ Twin(F, x) # 0
  THEN Twin(F, x)
  ELSE IF F[x].where = "main" /\ IsDeclaration(F, x)
          /\ GetBuiltinFunction(F, F[x].name) # 0
  THEN GetBuiltinFunction(F, F[x].name)
  ELSE x

\* instruction i with its function operands linked; a callee of another
\* type than the call is reached through a bitcast
Relink(F, i) ==
  LET args == [a \in 1..Len(i.args) |->
                 IF i.args[a].k = "fn"
                 THEN [i.args[a] EXCEPT !.n = Linked(F, @)]
                 ELSE i.args[a]]
  IN IF i.mode \in {"direct", "cast"}
     THEN [i EXCEPT !.args = args,
                    !.callee = Linked(F, @),
                    !.mode = IF F[Linked(F, i.callee)].ty = i.fty
                             THEN "direct" ELSE "cast"]
     ELSE [i EXCEPT !.args = args]

\* lines 538-540, Linker::linkInModule: every function left in BiFModule moves
\* into MainModule
LinkInModule ==
  /\ pc = "link"
  /\ LET replaced == {x \in 1..Len(fns) : Linked(fns, x) # x}
     IN /\ fns' = [g \in 1..Len(fns) |->
                     IF g \in replaced
                     THEN [fns[g] EXCEPT !.where = "erased", !.body = <<>>]
                     ELSE IF fns[g].where \in {"main", "lib"}
                     THEN [fns[g] EXCEPT
                             !.where = "main",
                             !.body = [k \in 1..Len(@) |-> Relink(fns, @[k])]]
                     ELSE fns[g]]
        /\ mainList' = SelectSeq(mainList \o libList,
                                 LAMBDA g : g \notin replaced)
  /\ libList' = <<>>
  /\ pc' = "flags"
  /\ UNCHANGED <<globals, asserts, rootIdx, stack, pruneIdx, func, instIdx,
                 list_delete, bitcastFunctionMap, ListDelete, nextId,
                 matCount, visits, input>>

\* lines 468-478: the flag variables and the values they are given
FlagValues ==
  ("__FlushDenormals" :> 1) @@ ("__DashGSpecified" :> 0)
  @@ ("__FastRelaxedMath" :> 0) @@ ("__UseNative64BitSubgroupBuiltin" :> 1)
  @@ ("__CRMacros" :> 1) @@ ("__IsSPIRV" :> 0)
  @@ ("__EnableSWSrgbWrites" :> 0) @@ ("__ProfilingTimerResolution" :> 0)

\* lines 455-479: a flag variable the module has gets its initializer
InitializeBIFlags(G) ==
  [g \in 1..Len(G) |->
     IF G[g].name \in DOMAIN FlagValues
     THEN [G[g] EXCEPT !.init = FlagValues[G[g].name], !.decl = FALSE]
     ELSE G[g]]

\* lines 542-543: InitializeBIFlags(*MainModule), then
\* removeFunctionBitcasts(*MainModule) begins
SetFlags ==
  /\ pc = "flags"
  /\ globals' = InitializeBIFlags(globals)
  /\ pc' = "repair_scan"
  /\ func' = 0
  /\ instIdx' = 1
  /\ input' = [input EXCEPT !.fns = fns, !.mainList = mainList,
                            !.globals = globals']
  /\ UNCHANGED <<fns, mainList, libList, asserts, rootIdx, stack, pruneIdx,
                 list_delete, bitcastFunctionMap, ListDelete, nextId,
                 matCount, visits>>

(***************************************************************************)
(* Inputs.  A body is built from the calls it makes: each call takes the   *)
(* result of the call before it when the types agree, else the function's  *)
(* argument or a constant; a last instruction uses every result.           *)
(***************************************************************************)
ConstValue(ty) == [k |-> "const", n |-> 0, ty |-> ty]

Site(mode, callee, fty) == [mode |-> mode, callee |-> callee, fty |-> fty]

SeqsUpTo(S, n) == UNION {[1..m -> S] : m \in 0..n}

BuildBody(sites, base, paramTy) ==
  LET Args(k) ==
        [p \in 1..NumParams(sites[k].fty) |->
           IF p = 1 /\ k > 1 /\ ReturnType(sites[k - 1].fty) = sites[k].fty[2]
           THEN [k |-> "inst", n |-> base + k - 2, ty |-> sites[k].fty[2]]
           ELSE IF p = 1 /\ sites[k].fty[2] = paramTy
           THEN ArgValue(0, paramTy)
           ELSE ConstValue(sites[k].fty[p + 1])]
      Call(k) ==
        MkInst(base + k - 1, "call", sites[k].mode, sites[k].callee,
               sites[k].fty, Args(k), ReturnType(sites[k].fty), 0)
      calls == [k \in 1..Len(sites) |-> Call(k)]
      results == SelectSeq(calls, LAMBDA i : i.ty # "void")
      user == MkInst(base + Len(sites), "use", "none", 0, <<>>,
                     [k \in 1..Len(results) |-> InstValue(results[k])],
                     "void", 0)
  IN IF sites = <<>> THEN <<>> ELSE Append(calls, user)

Defined(name, ty, cc, linkage, dll, body) ==
  MkFunction(name, 0, ty, cc, "def", "main", "not_intrinsic", <<>>, linkage,
             dll, body, 0)

Declared(name, ty) ==
  MkFunction(name, 0, ty, 0, "decl", "main", "not_intrinsic", <<>>,
             "external", FALSE, <<>>, 0)

IntrinsicDecl(iid, tys, ty) ==
  MkFunction("llvm." \o iid, 0, ty, 0, "decl", "main", iid, tys, "external",
             FALSE, <<>>, 0)

Global(name, decl, linkage) ==
  [name |-> name, decl |-> decl, linkage |-> linkage, init |-> "none"]

\* the globals of the main module as CMImportBiF is called
GivenGlobals ==
  <<Global("__FlushDenormals", TRUE, "external"),
    Global("printf_buffer", TRUE, "external"),
    Global("table", FALSE, "external")>>

\* the globals after InitializeBIFlags
InputGlobals == InitializeBIFlags(GivenGlobals)

\* what every input leaves as it is before the pass runs
Idle ==
  /\ libList = <<>>
  /\ rootIdx = 0
  /\ stack = <<>>
  /\ pruneIdx = 0
  /\ list_delete = <<>>
  /\ bitcastFunctionMap = <<>>
  /\ ListDelete = <<>>
  /\ matCount = <<>>
  /\ visits = <<>>

\* the module as removeFunctionBitcasts finds it
RewriteBegins(F, list, next, a) ==
  /\ fns = F
  /\ mainList = list
  /\ globals = InputGlobals
  /\ nextId = next
  /\ asserts = a
  /\ pc = "repair_scan"
  /\ func = 0
  /\ instIdx = 1
  /\ input = [given |-> F, fns |-> F, mainList |-> list,
              globals |-> InputGlobals]
  /\ Idle

\* inputs with calls through a bitcast: functions 1 and 2 are defined with
\* type i32 (i32), function 3 is a declaration of that type
CastSites ==
  {Site("cast", f, fty) : f \in {1, 2},
                          fty \in {<<"i32", "i64">>, <<"i64", "i64">>,
                                   <<"i32", "i32", "i32">>}}
  \cup {Site("cast", 3, <<"i32", "i64">>),
        Site("direct", 1, <<"i32", "i32">>),
        Site("direct", 2, <<"i32", "i32">>),
        Site("ptr", 0, <<"i32", "i32">>)}

InitCasts ==
  \E sa \in SeqsUpTo(CastSites, MaxCasts), sb \in SeqsUpTo(CastSites, MaxCasts) :
    LET bodyA == BuildBody(sa, 1, "i32")
        bodyB == BuildBody(sb, 1 + Len(bodyA), "i32")
    IN RewriteBegins(
         <<Defined("A", <<"i32", "i32">>, 0, "external", FALSE, bodyA),
           Defined("B", <<"i32", "i32">>, 1, "internal", FALSE, bodyB),
           Declared("C", <<"i32", "i32">>)>>,
         <<1, 2, 3>>, 1 + Len(bodyA) + Len(bodyB), TRUE)

\* inputs with calls of builtins: functions 1 and 2 are defined, 3.. are
\* the declarations they call
BuiltinDecls ==
  <<Declared("__builtin_IB_dtof_rtz", <<"float", "double">>),
    Declared("__builtin_IB_fma", <<"float", "float", "float", "float">>),
    Declared("__builtin_IB_dtoi32_rtn", <<"i32", "double">>),
    Declared("__builtin_IB_fma_rtz_f32", <<"float", "float", "float", "float">>),
    Declared("__builtin_IB_itof_rtz", <<"float", "i32">>),
    Declared("__builtin_IB_uitof_rtz", <<"float", "i32">>),
    Declared("__builtin_IB_mul_rtz_f32", <<"float", "float", "float">>),
    Declared("__builtin_IB_add_rtz_f64", <<"double", "double", "double">>),
    IntrinsicDecl("ctlz", <<"i32">>, <<"i32", "i32", "i1">>),
    IntrinsicDecl("ctlz", <<"i64">>, <<"i64", "i64", "i1">>),
    IntrinsicDecl("lifetime_start", <<"ptr">>, <<"void", "i64", "ptr">>),
    Declared("foo", <<"float", "float">>)>>

BuiltinSites ==
  {Site("direct", 2 + k, BuiltinDecls[k].ty) : k \in 1..Len(BuiltinDecls)}


\* how the kernel may be declared: <<linkage, dllexport>>
KernelLinkage == {<<"external", FALSE>>, <<"external", TRUE>>, <<"internal", FALSE>>}

InitBuiltins ==
  \E sk \in SeqsUpTo(BuiltinSites, MaxCalls), sh \in SeqsUpTo(BuiltinSites, 1),
     lk \in KernelLinkage, a \in BOOLEAN :
    LET bodyK == BuildBody(sk, 1, "float")
        bodyH == BuildBody(sh, 1 + Len(bodyK), "float")
    IN RewriteBegins(
         <<Defined("kernel", <<"float", "float">>, 0, lk[1], lk[2], bodyK),
           Defined("helper", <<"float", "float">>, 0, "external", FALSE, bodyH)>>
           \o BuiltinDecls,
         [k \in 1..(2 + Len(BuiltinDecls)) |-> k],
         1 + Len(bodyK) + Len(bodyH), a)

\* a function of the library module, its body not loaded yet
Lazy(name, ty, body) ==
  MkFunction(name, 0, ty, 0, "mat", "lib", "not_intrinsic", <<>>, "external",
             FALSE, body, 0)

\* inputs of the import: functions 1 and 2 are kernels of the main module,
\* 3..5 its declarations of F, G (with a 64-bit parameter) and H, 6..8 the
\* library's F, G and H of type i32 (i32), 9 a builtin the library declares
KernelSites ==
  {Site("direct", 3, <<"i32", "i32">>),
   Site("direct", 4, <<"i32", "i64">>),
   Site("cast", 5, <<"i32", "i64">>)}

Kernel2Sites ==
  {Site("direct", 3, <<"i32", "i32">>), Site("direct", 5, <<"i32", "i32">>)}

FSites ==
  {Site("direct", 6, <<"i32", "i32">>),
   Site("direct", 7, <<"i32", "i32">>),
   Site("direct", 8, <<"i32", "i32">>),
   Site("cast", 8, <<"i32", "i64">>),
   Site("direct", 9, <<"float", "float", "float", "float">>)}

GSites ==
  {Site("direct", 6, <<"i32", "i32">>), Site("direct", 8, <<"i32", "i32">>)}

HSites ==
  {Site("direct", 7, <<"i32", "i32">>),
   Site("direct", 9, <<"float", "float", "float", "float">>)}

InitImport ==
  \E s1 \in SeqsUpTo(KernelSites, MaxMainCalls),
     s2 \in SeqsUpTo(Kernel2Sites, 1),
     sF \in SeqsUpTo(FSites, MaxLibCalls),
     sG \in SeqsUpTo(GSites, MaxLibCalls),
     sH \in SeqsUpTo(HSites, MaxLibCalls) :
    LET body1 == BuildBody(s1, 1, "i32")
        body2 == BuildBody(s2, 1 + Len(body1), "i32")
        bodyF == BuildBody(sF, 1 + Len(body1) + Len(body2), "i32")
        bodyG == BuildBody(sG, 1 + Len(body1) + Len(body2) + Len(bodyF), "i32")
        bodyH == BuildBody(sH, 1 + Len(body1) + Len(body2) + Len(bodyF)
                                 + Len(bodyG), "i32")
        F == <<Defined("kernel1", <<"i32", "i32">>, 1, "external", TRUE, body1),
               Defined("kernel2", <<"i32", "i32">>, 2, "external", FALSE, body2),
               Declared("F", <<"i32", "i32">>),
               Declared("G", <<"i32", "i64">>),
               Declared("H", <<"i32", "i32">>),
               Lazy("F", <<"i32", "i32">>, bodyF),
               Lazy("G", <<"i32", "i32">>, bodyG),
               Lazy("H", <<"i32", "i32">>, bodyH),
               [Declared("__builtin_IB_fma",
                         <<"float", "float", "float", "float">>)
                  EXCEPT !.where = "lib"]>>
    IN /\ fns = F
       /\ mainList = <<1, 2, 3, 4, 5>>
       /\ libList = <<6, 7, 8, 9>>
       /\ globals = GivenGlobals
       /\ nextId = 1 + Len(body1) + Len(body2) + Len(bodyF) + Len(bodyG)
                     + Len(bodyH)
       /\ asserts = TRUE
       /\ pc = "walk"
       /\ rootIdx = 1
       /\ stack = <<>>
       /\ pruneIdx = 0
       /\ func = 0
       /\ instIdx = 1
       /\ list_delete = <<>>
       /\ bitcastFunctionMap = <<>>
       /\ ListDelete = <<>>
       /\ matCount = [f \in 1..Len(F) |-> 0]
       /\ visits = <<>>
       /\ input = [given |-> F, fns |-> F, mainList |-> <<1, 2, 3, 4, 5>>,
                   globals |-> GivenGlobals]

InitRewrite == InitCasts \/ InitBuiltins

NextRewrite ==
  \/ RepairCall
  \/ RepairAdvance
  \/ RepairErase
  \/ RepairReturn
  \/ ConvertCall
  \/ ConvertAdvance
  \/ ConvertErase
  \/ ConvertLinkage

\* removeFunctionBitcasts and BIConvert::runOnModule on any linked module
SpecRewrite == InitRewrite /\ [][NextRewrite]_vars

NextWalk ==
  \/ WalkRoot
  \/ ExploreCallee
  \/ ExploreReturn
  \/ WalkDone

Next ==
  \/ NextWalk
  \/ CleanStep
  \/ MaterializeAll
  \/ LinkInModule
  \/ SetFlags
  \/ NextRewrite

\* CMImportBiF from its first line
Spec == InitImport /\ [][Next]_vars

\* the demand walk alone, running on: no step that can be taken is put off
\* for ever
SpecWalk == InitImport /\ [][NextWalk]_vars /\ WF_vars(NextWalk)

(***************************************************************************)
(* Properties.                                                             *)
(***************************************************************************)
MainFns == {f \in 1..Len(fns) : fns[f].where = "main"}

\* the call instructions of the main module, as <<function, index>>
MainCalls ==
  UNION {{<<f, k>> : k \in {m \in 1..Len(fns[f].body) :
                              fns[f].body[m].op = "call"}} : f \in MainFns}

\* the functions signature repair cloned (a body was copied into them)
Clones == {d \in 1..Len(fns) : fns[d].of # 0 /\ fns[d].state = "def"}

\* the function type the call's result and arguments spell out
SignatureOf(i) == <<i.ty>> \o [k \in 1..Len(i.args) |-> i.args[k].ty]

\* the callee of direct call i is declared with the types the call uses; the
\* parameters of an intrinsic come from the intrinsic table, so only its
\* return type is compared
SignatureMatches(i) ==
  IF fns[i.callee].iid = "not_intrinsic"
  THEN fns[i.callee].ty = SignatureOf(i)
  ELSE ReturnType(fns[i.callee].ty) = i.ty

\* C2 as stated: when CMImportBiF has finished, every call of the main
\* module has a direct callee whose declared signature is exactly the
\* call's argument and return types.
C2_EveryCallDirect ==
  pc = "done" =>
    \A c \in MainCalls :
      LET i == fns[c[1]].body[c[2]]
      IN i.mode = "direct" /\ SignatureMatches(i)

\* the call at which the running scan acts next (the step's own site)
RepairSite == FirstSite(BitcastSites(fns[func].body), instIdx)

ConvertSite == FirstSite(BuiltinCalls(fns[func].body), instIdx)

\* a step of removeFunctionBitcasts that queues a call: it was redirected
Redirects == pc = "repair_scan" /\ list_delete' # list_delete

\* a step of BIConvert::runOnModule that queues a call: it was rewritten
Rewrites == pc = "convert_scan" /\ ListDelete' # ListDelete

\* at most one clone of a function per function type
OneClonePerSignature ==
  \A d1, d2 \in Clones :
    fns[d1].of = fns[d2].of /\ fns[d1].ty = fns[d2].ty => d1 = d2

\* the redirected call stands where the call through the bitcast stood and
\* calls a clone of the function under the bitcast, of the call's type
RedirectedToClone ==
  Redirects =>
    LET call == fns[func].body[RepairSite]
    IN fns'[func].where = "main" =>
         LET newCI == fns'[func].body[RepairSite]
             d == newCI.callee
         IN /\ newCI.op = "call" /\ newCI.mode = "direct"
            /\ fns'[d].where = "main" /\ fns'[d].state = "def"
            /\ fns'[d].of = call.callee
            /\ fns'[d].ty = call.fty
            /\ newCI.fty = call.fty
            /\ newCI.args = call.args

\* C3: per original function and required function type at most one clone
\* is ever created; every call through a bitcast of that function with that
\* type is redirected to this one clone, and calls with different types get
\* different clones.
C3_CloneShared == []OneClonePerSignature /\ [][RedirectedToClone]_vars

\* two calls in different places were redirected to the same clone, and the
\* same original has a second clone of another type
C3_Witness ==
  \E c1, c2 \in MainCalls :
    LET i1 == fns[c1[1]].body[c1[2]]
        i2 == fns[c2[1]].body[c2[2]]
    IN /\ c1 # c2
       /\ i1.mode = "direct" /\ i2.mode = "direct"
       /\ i1.callee = i2.callee
       /\ i1.callee \in Clones
       /\ \E d \in Clones : d # i1.callee /\ fns[d].of = fns[i1.callee].of

\* every function and instruction of the main module outlives a scan step
NothingErasedInScan ==
  pc \in {"repair_scan", "convert_scan"} =>
    \A f \in MainFns :
      /\ fns'[f].where = "main"
      /\ \A k \in 1..Len(fns[f].body) :
           \E m \in 1..Len(fns'[f].body) :
             fns'[f].body[m].id = fns[f].body[k].id

\* C8: in signature repair and in the call rewriter nothing is erased from
\* the main module while the scan over its functions is in progress: every
\* function and every instruction there before a step of a scan is there
\* after it.
C8_ErasureDeferred == [][NothingErasedInScan]_vars

\* the scan stands at a call whose argument count is not the parameter
\* count of the defined function under the bitcast
AtArityMismatch ==
  /\ pc = "repair_scan"
  /\ func # 0
  /\ RepairSite # 0
  /\ LET call == fns[func].body[RepairSite]
     IN NumParams(call.fty) # NumParams(fns[call.callee].ty)

MismatchSkipped ==
  AtArityMismatch =>
    /\ fns' = fns
    /\ mainList' = mainList
    /\ bitcastFunctionMap' = bitcastFunctionMap

\* C9: a call through a bitcast whose argument count differs from the
\* parameter count of the defined function under the bitcast is skipped
\* without a trace: no function is added to the module, nothing is added to
\* the clone cache, the call stays as it was.
C9_MismatchLeavesNoTrace == [][MismatchSkipped]_vars

\* body with every use of the result of instruction old turned into new
\* and the instructions news put before index j
Rewritten(body, j, news) ==
  InsertBefore(
    ReplaceAllUsesWith(body, body[j].id, InstValue(news[Len(news)])), j, news)

\* the step touches no function but func and the declarations it adds
OnlyFuncChanged ==
  \A g \in 1..Len(fns) : g # func => fns'[g] = fns[g]

\* what a step that rewrites a OneMap call does
OneMapStep ==
  (Rewrites /\ Rule(fns, fns[func].body[ConvertSite].callee) = "one") =>
    LET body == fns[func].body
        j == ConvertSite
        call == body[j]
        new == fns'[func].body[j]
    IN /\ new.op = "call" /\ new.mode = "direct"
       /\ new.id \notin {body[k].id : k \in 1..Len(body)}
       /\ fns'[new.callee].where = "main"
       /\ fns'[new.callee].iid = OneMap[fns[call.callee].name]
       /\ fns'[new.callee].tys = <<ReturnType(fns[call.callee].ty)>>
       /\ new.ty = call.ty
       /\ new.args = call.args
       /\ fns'[func].body = Rewritten(body, j, <<new>>)
       /\ OnlyFuncChanged
       /\ ListDelete' = Append(ListDelete, call.id)

\* when runOnModule has returned no queued call is left: nothing calls a
\* function that a rewriting branch matches
NoBuiltinCallLeft ==
  pc = "done" =>
    /\ ListDelete = <<>>
    /\ \A c \in MainCalls : ~BuiltinSite(fns[c[1]].body[c[2]])

\* C4: a direct call of a OneMap builtin is replaced by exactly one call of
\* the mapped intrinsic, instantiated with the callee's return type, with
\* the original arguments in order; every use of the original call becomes
\* a use of the new call; the original call is gone when runOnModule ends.
C4_OneIntrinsic == []NoBuiltinCallLeft /\ [][OneMapStep]_vars

\* runOnModule has ended after rewriting a three-argument OneMap call whose
\* result had a use
C4_Witness ==
  /\ pc = "done"
  /\ \E c \in MainCalls :
       LET i == fns[c[1]].body[c[2]]
       IN /\ i.mode = "direct"
          /\ fns[i.callee].iid = "fma"
          /\ fns[i.callee].tys = <<"float">>
          /\ Len(i.args) = 3
          /\ \E k \in 1..Len(fns[c[1]].body) :
               \E a \in 1..Len(fns[c[1]].body[k].args) :
                 fns[c[1]].body[k].args[a] = InstValue(i)
  /\ \E f \in 1..Len(input.fns) :
       \E k \in 1..Len(input.fns[f].body) :
         /\ input.fns[f].body[k].mode = "direct"
         /\ input.fns[input.fns[f].body[k].callee].name = "__builtin_IB_fma"

\* what a step that rewrites a TwoMap call does
TwoMapStep ==
  (Rewrites /\ Rule(fns, fns[func].body[ConvertSite].callee) = "two") =>
    LET body == fns[func].body
        j == ConvertSite
        call == body[j]
        pair == TwoMap[fns[call.callee].name]
        first == fns'[func].body[j]
        second == fns'[func].body[j + 1]
    IN /\ first.op = "call" /\ first.mode = "direct"
       /\ second.op = "call" /\ second.mode = "direct"
       /\ first.id # second.id
       /\ {first.id, second.id} \cap {body[k].id : k \in 1..Len(body)} = {}
       /\ fns'[first.callee].iid = pair[1]
       /\ fns'[first.callee].tys = <<call.args[1].ty>>
       /\ first.args = call.args
       /\ fns'[second.callee].iid = pair[2]
       /\ fns'[second.callee].tys = <<ReturnType(fns[call.callee].ty), first.ty>>
       /\ second.args = <<InstValue(first)>>
       /\ fns'[func].body = Rewritten(body, j, <<first, second>>)
       /\ OnlyFuncChanged
       /\ ListDelete' = Append(ListDelete, call.id)

\* C5: a direct call of a TwoMap builtin is replaced by exactly two calls:
\* the pair's first intrinsic instantiated with the type of argument 0 and
\* given all original arguments, then the pair's second intrinsic
\* instantiated with (callee return type, first result type) and given the
\* first result alone; every use of the original call becomes a use of the
\* second call; the original call is gone when runOnModule ends.
C5_TwoIntrinsics == []NoBuiltinCallLeft /\ [][TwoMapStep]_vars

\* runOnModule has ended with a rounding call feeding a saturating
\* conversion whose result has a use
C5_Witness ==
  /\ pc = "done"
  /\ \E c \in MainCalls :
       LET body == fns[c[1]].body
           i == body[c[2]]
       IN /\ i.mode = "direct"
          /\ fns[i.callee].iid = "genx_fptosi_sat"
          /\ fns[i.callee].tys = <<"i32", "double">>
          /\ c[2] > 1
          /\ i.args = <<InstValue(body[c[2] - 1])>>
          /\ fns[body[c[2] - 1].callee].iid = "genx_rndd"
          /\ \E k \in 1..Len(body) : \E a \in 1..Len(body[k].args) :
               body[k].args[a] = InstValue(i)

\* what a step at a call of llvm.ctlz does
CtlzStep ==
  (/\ pc = "convert_scan"
   /\ func # 0
   /\ ConvertSite # 0
   /\ Rule(fns, fns[func].body[ConvertSite].callee) = "ctlz") =>
    LET body == fns[func].body
        j == ConvertSite
        call == body[j]
        new == fns'[func].body[j]
    IN IF CtlzAssertsHold(call)
       THEN /\ new.op = "call" /\ new.mode = "direct"
            /\ new.id \notin {body[k].id : k \in 1..Len(body)}
            /\ fns'[new.callee].iid = "genx_lzd"
            /\ new.args = <<call.args[1]>>
            /\ fns'[func].body = Rewritten(body, j, <<new>>)
            /\ OnlyFuncChanged
            /\ ListDelete' = Append(ListDelete, call.id)
       ELSE pc' = "aborted"

\* C6: a call of llvm.ctlz on a 32-bit integer is replaced by exactly one
\* call of genx_lzd on the same operand 0 and removed; a call of llvm.ctlz
\* on any other operand type is never rewritten, the pass aborts.
C6_CtlzLoweredOrFlagged == []NoBuiltinCallLeft /\ [][CtlzStep]_vars

\* the rewrite rules C7 names
NamedRules == {"ctlz", "one", "two", "itof", "uitof", "mul_rtz", "add_rtz"}

\* the module handed to the rewriting holds no call through a bitcast and no
\* call that a named rule matches
NoMatchingInput ==
  \A f \in 1..Len(input.fns) : \A k \in 1..Len(input.fns[f].body) :
    LET i == input.fns[f].body[k]
    IN i.op = "call" =>
         /\ i.mode # "cast"
         /\ i.mode = "direct" => Rule(input.fns, i.callee) \notin NamedRules

\* C7 as stated: rewriting a module without a matching call and without a
\* call through a bitcast leaves functions, instructions, globals and their
\* linkage as they were.
C7_NoOp ==
  (pc = "done" /\ NoMatchingInput) =>
    /\ fns = input.fns
    /\ mainList = input.mainList
    /\ globals = input.globals

IsLifetimeMarker(F, i) ==
  i.op = "call" /\ i.mode = "direct" /\ Rule(F, i.callee) = "lifetime"

\* function f of F after the linkage demotion, without its lifetime markers
Finalized(F, f) ==
  [F[f] EXCEPT
     !.body = SelectSeq(@, LAMBDA i : ~IsLifetimeMarker(F, i)),
     !.linkage = IF /\ F[f].iid = "not_intrinsic"
                    /\ F[f].state = "def"
                    /\ ~F[f].dll
                 THEN "internal" ELSE @]

\* C7 amended: rewriting such a module adds and removes no function, changes
\* no instruction but the lifetime markers, which it removes, and changes no
\* global; of the linkage it changes that of every defined global and of
\* every defined function that is no intrinsic and not dllexport, which
\* become internal.
C7_OnlyLinkageDemoted ==
  (pc = "done" /\ NoMatchingInput) =>
    /\ mainList = input.mainList
    /\ fns = [f \in 1..Len(input.fns) |-> Finalized(input.fns, f)]
    /\ globals = [g \in 1..Len(input.globals) |->
                    IF input.globals[g].decl THEN input.globals[g]
                    ELSE [input.globals[g] EXCEPT !.linkage = "internal"]]

\* a module with a dllexport kernel that calls an unmatched function and a
\* lifetime marker has been through both passes
C7_Witness ==
  /\ pc = "done"
  /\ NoMatchingInput
  /\ input.fns[1].dll
  /\ \E k \in 1..Len(input.fns[1].body) :
       /\ input.fns[1].body[k].mode = "direct"
       /\ input.fns[input.fns[1].body[k].callee].name = "foo"
  /\ \E k \in 1..Len(input.fns[1].body) :
       IsLifetimeMarker(input.fns, input.fns[1].body[k])
  /\ fns[2].linkage # input.fns[2].linkage

\* the library functions with a definition, as CMImportBiF was called
LibDefs ==
  {f \in 1..Len(input.given) :
     input.given[f].where = "lib" /\ input.given[f].state = "mat"}

\* what the direct calls of function g of the given modules reach by name
DirectTargets(g) ==
  {Resolve(input.given, GetCalledFunction(input.given[g].body[k])) :
     k \in {m \in 1..Len(input.given[g].body) :
              GetCalledFunction(input.given[g].body[m]) # 0}}
  \cap LibDefs

RECURSIVE ReachFrom(_)
ReachFrom(S) ==
  LET from == S \cup {g \in 1..Len(input.given) : input.given[g].where = "main"}
      T == S \cup UNION {DirectTargets(g) : g \in from}
  IN IF T = S THEN S ELSE ReachFrom(T)

\* the library functions a chain of direct calls reaches from the main module
Reach == ReachFrom({})

\* the library functions a reached function refers to in any way
Referenced ==
  {h \in LibDefs :
     \E g \in Reach : \E k \in 1..Len(input.given[g].body) :
       Refs(input.given[g].body[k], h)}

DefinedInMain(f) == fns[f].where = "main" /\ fns[f].state = "def"

\* C1 as stated: after CMImportBiF every library function reachable from a
\* main-module function through direct calls is defined in the main module
\* and every other library function is absent from it.
C1_ReachableLinked ==
  pc = "done" =>
    /\ \A f \in Reach : DefinedInMain(f)
    /\ \A h \in LibDefs \ Reach : fns[h].where # "main"

\* f is in the main module, itself or as the clones signature repair made
InMainOrCloned(f) ==
  \/ DefinedInMain(f)
  \/ \E d \in Clones : fns[d].of = f /\ fns[d].where = "main"

\* C1 amended: after CMImportBiF every library function that direct calls
\* reach from the main module, and every library function that one of
\* those refers to otherwise (a call through a bitcast), is defined in the
\* main module, itself or, where signature repair replaced it, as its
\* clones; every other library function is absent, and so are clones of it.
C1_NeededLinked ==
  pc = "done" =>
    /\ \A f \in Reach \cup Referenced : InMainOrCloned(f)
    /\ \A h \in LibDefs \ (Reach \cup Referenced) :
         /\ fns[h].where # "main"
         /\ \A d \in Clones : fns[d].of # h

\* the import has ended: a library function that only another library
\* function calls is in the main module, and an unreached one is not
C1_Witness ==
  /\ pc = "done"
  /\ \E f \in Reach :
       /\ DefinedInMain(f)
       /\ \A g \in 1..Len(input.given) :
            input.given[g].where = "main" => f \notin DirectTargets(g)
  /\ \E h \in LibDefs \ (Reach \cup Referenced) : fns[h].where = "erased"

\* within a frame of Explore no function comes up twice, Explore is called
\* at most once on a function, and no function is materialized twice
WalkBounded ==
  /\ \A a, b \in 1..Len(visits) :
       (a # b /\ visits[a].root = visits[b].root) =>
         visits[a].callee # visits[b].callee
  /\ \A a, b \in 1..Len(visits) :
       (a # b /\ visits[a].entered /\ visits[b].entered) =>
         visits[a].callee # visits[b].callee
  /\ \A f \in DOMAIN matCount : matCount[f] <= 1

\* C10: the demand walk ends, whatever recursion the library's call graph
\* holds; a function that several roots reach is looked at once under each
\* of them and entered once; no library function is materialized twice.
C10_WalkTerminates == <>(pc # "walk") /\ []WalkBounded

\* the walk has ended over a library function that calls itself and that
\* both kernels reach
C10_Witness ==
  /\ pc # "walk"
  /\ \E a, b, c \in 1..Len(visits) :
       /\ visits[a].root = visits[a].callee
       /\ visits[b].callee = visits[a].callee
       /\ visits[c].callee = visits[a].callee
       /\ visits[b].root = 1
       /\ visits[c].root = 2
       /\ matCount[visits[a].callee] = 1

\* the functions Explore was called on
Explored == {visits[a].callee : a \in {b \in 1..Len(visits) : visits[b].entered}}

\* the library functions the walk materialized
WalkMaterialized ==
  {f \in DOMAIN matCount : fns[f].where = "lib" /\ matCount[f] >= 1}

\* C11: when the demand walk has ended, every direct call inside a function
\* the walk explored whose callee resolves, itself or by name into the
\* library, to a library function the walk materialized has the calling
\* convention of that library function.
C11_CallsAgreeWithCallee ==
  (pc = "clean" /\ pruneIdx = 1) =>
    \A g \in Explored : \A k \in 1..Len(fns[g].body) :
      LET i == fns[g].body[k]
          target == IF GetCalledFunction(i) = 0 THEN 0
                    ELSE Resolve(fns, GetCalledFunction(i))
      IN target \in WalkMaterialized => i.cc = fns[target].cc

\* CleanUnused's loop is over
Pruned == pc = "clean" /\ pruneIdx > Len(libList)

\* C12: when CleanUnused has returned, every function that a function left
\* in the library module calls or refers to is still in the library module.
C12_PrunerKeepsNeeded ==
  Pruned =>
    \A g \in 1..Len(fns) :
      fns[g].where = "lib" =>
        \A k \in 1..Len(fns[g].body) : \A x \in 1..Len(fns) :
          Refs(fns[g].body[k], x) => fns[x].where = "lib"

\* C13: in signature repair every call on the deletion list is inside a
\* function of the main module until the final loop erases it, and no
\* function that holds a queued call, whose operands are dropped, is cloned.
C13_QueuedCallsSafe ==
  /\ pc \in {"repair_scan", "repair_erase"} =>
       \A k \in 1..Len(list_delete) : ParentOf(fns, list_delete[k]) # 0
  /\ (pc = "repair_scan" /\ func # 0 /\ RepairSite # 0) =>
       LET call == fns[func].body[RepairSite]
       IN (/\ CachedClone(call.callee, call.fty) = 0
           /\ NumParams(call.fty) = NumParams(fns[call.callee].ty)) =>
            ~HasDroppedCall(fns[call.callee].body)

====
